---- MODULE Spec2Model ----
(***************************************************************************)
(* State-machine model of the resource pool manager                        *)
(* (src/core/residential_proxy_pool.py: ProxyStats, ResidentialProxyPool)  *)
(* and of the adaptive timing controller                                   *)
(* (src/core/ai_behavior_engine.py: AdaptiveTiming).                       *)
(*                                                                         *)
(* Conventions.  Python None is the string "None".  A call that ends in a  *)
(* Python exception returns the exception's name ("IndexError", ...).      *)
(* time.time() is the variable now, counted in whole minutes, so that the  *)
(* source's (current_time - last_used) / 60 is now - last_used.            *)
(* avg_response_time is an exact rational n / 5^k kept as [n, k].          *)
(* lastOp / ret record the last call and what it returned; with sweeps     *)
(* they are the only history the model keeps.                              *)
(***************************************************************************)
EXTENDS Integers, Sequences, FiniteSets, TLC

VARIABLES
  proxies,             \* ResidentialProxyPool.proxies (list of identifiers)
  proxy_stats,         \* ResidentialProxyPool.proxy_stats (identifier -> ProxyStats)
  geo_groups,          \* ResidentialProxyPool.geo_groups (region -> list), keys = regions present
  current_proxy,       \* ResidentialProxyPool.current_proxy
  rotation_strategy,   \* ResidentialProxyPool.rotation_strategy
  now,                 \* time.time(), in minutes
  successful_timings,  \* AdaptiveTiming.successful_timings
  failed_timings,      \* AdaptiveTiming.failed_timings
  sweeps,              \* number of health_check_all sweeps performed (bounds the model)
  sweep_tasks,         \* health_check_all awaiting its probes: <<number of tasks>>, else << >>
  calls,               \* record_request calls made so far (identifier -> successes, failures)
  lastOp,              \* name of the last operation called
  ret                  \* its return value

vars == <<proxies, proxy_stats, geo_groups, current_proxy, rotation_strategy, now,
          successful_timings, failed_timings, sweeps, sweep_tasks, calls, lastOp, ret>>

poolVars == <<proxies, proxy_stats, geo_groups, current_proxy, rotation_strategy, sweeps,
              sweep_tasks, calls>>
timingVars == <<successful_timings, failed_timings>>

-----------------------------------------------------------------------------
(* Bounds of the model *)

\* record_request calls accepted over the whole pool (Spec, SpecStrategies)
MaxRequests == 5
\* record_request calls accepted over the whole pool (SpecDeep)
MaxDeepRequests == 13
\* successful record_request calls accepted over the whole pool (SpecDeep)
MaxDeepSuccesses == 1
\* health_check_all sweeps
MaxSweeps == 1
\* total_requests of the drawn statistics (SpecHealth)
MaxHealthTotal == 12
\* consecutive_failures of the drawn statistics (SpecHealth)
MaxStreak == 4
\* target_views of the run (SpecRun)
target_views == 2
\* views of the run (SpecRun)
MaxViews == 4
\* selections explored from each drawn pool (SpecScore)
MaxSelected == 1
\* length of the success history (SpecTiming)
MaxSuccesses == 10
\* length of the failure history (SpecTiming)
MaxFailures == 3

(* Program constants *)

\* is_healthy: consecutive_failures >= 3 is unhealthy
UnhealthyFailures == 3
\* is_healthy: the success rate counts once total_requests > 10
MinSampleSize == 10
\* record_request / health_check_all: ban at 5 consecutive failures
BanThreshold == 5
\* _reset_proxy_health: consecutive_failures < 10 are reset
HardFailures == 10
\* _get_intelligent_proxy: random choice among the top 5
TopBand == 5
\* get_optimal_delay: fewer than 10 successes draw uniformly from [120, 600]
LearnedMin == 10
ColdLow == 120
ColdHigh == 600
\* get_optimal_delay: the last 50 successes are read
DelayWindow == 50
\* get_optimal_delay: the result is kept within [60, 1800]
DelayLow == 60
DelayHigh == 1800
\* should_rotate_proxy: fewer than 5 successes rotate
RotateMin == 5
\* should_rotate_proxy: the last 10 successes and the last 10 failures are read
RotateWindow == 10

-----------------------------------------------------------------------------
(* Input sets *)

ProxyIds == {"A", "B"}
UnknownProxy == "Z"
PoolLists == {<< >>, <<"A">>, <<"A", "B">>}
DeepLists == {<<"A">>, <<"A", "B">>}
Regions == {"US", "EU", "ASIA", "OTHER"}
Strategies == {"intelligent", "least_used", "random", "round_robin"}
\* response_time values handed to record_request, in milliseconds
ResponseTimes == {2000}

Range(s) == {s[i] : i \in 1..Len(s)}

Min2(a, b) == IF a < b THEN a ELSE b
Max2(a, b) == IF a > b THEN a ELSE b

RECURSIVE SumSeq(_)
SumSeq(s) == IF s = << >> THEN 0 ELSE Head(s) + SumSeq(Tail(s))

-----------------------------------------------------------------------------
(* ProxyStats *)

ZeroAvg == [n |-> 0, k |-> 0]

NewStats == [total_requests |-> 0, successful_requests |-> 0, failed_requests |-> 0,
             last_used |-> 0, avg_response_time |-> ZeroAvg,
             consecutive_failures |-> 0, banned |-> FALSE]

\* success_rate < 0.5, with success_rate = 1.0 at zero requests (exact arithmetic)
RateBelowHalf(s) ==
  IF s.total_requests = 0 THEN FALSE
  ELSE 2 * s.successful_requests < s.total_requests

\* mutation: the success rate is tested from 10 requests on
is_healthy_at_ten(s) ==
  IF s.banned \/ s.consecutive_failures >= UnhealthyFailures THEN FALSE
  ELSE IF s.total_requests >= MinSampleSize /\ RateBelowHalf(s) THEN FALSE
  ELSE TRUE

is_healthy(s) ==
  IF s.banned \/ s.consecutive_failures >= UnhealthyFailures THEN FALSE
  ELSE IF s.total_requests > MinSampleSize /\ RateBelowHalf(s) THEN FALSE
  ELSE TRUE

-----------------------------------------------------------------------------
(* ResidentialProxyPool.__init__ and _group_by_geo *)

\* the members of s, in order, whose index i has region[i] = r
RECURSIVE GroupMembers(_, _, _, _)
GroupMembers(s, region, r, i) ==
  IF i > Len(s) THEN << >>
  ELSE (IF region[i] = r THEN <<s[i]>> ELSE << >>) \o GroupMembers(s, region, r, i + 1)

\* region[i] is the outcome of random.choice for the i-th proxy
_group_by_geo(list, region) ==
  [r \in {region[i] : i \in 1..Len(list)} |-> GroupMembers(list, region, r, 1)]

\* the record_request calls behind the counters of stats
CallsOf(stats) ==
  [p \in DOMAIN stats |-> [successes |-> stats[p].successful_requests,
                           failures |-> stats[p].failed_requests]]

PoolInit(lists, draws, strategies) ==
  /\ proxies \in lists
  /\ proxy_stats = [p \in Range(proxies) |-> NewStats]
  /\ \E region \in [1..Len(proxies) -> draws] : geo_groups = _group_by_geo(proxies, region)
  /\ current_proxy = "None"
  /\ rotation_strategy \in strategies
  /\ sweeps = 0
  /\ sweep_tasks = << >>
  /\ calls = CallsOf(proxy_stats)

-----------------------------------------------------------------------------
(* _reset_proxy_health *)

\* mutation: the hard-failure threshold is not tested
_reset_proxy_health_all(stats) ==
  [p \in DOMAIN stats |-> [stats[p] EXCEPT !.consecutive_failures = 0, !.banned = FALSE]]

\* mutation: the ban is not lifted
_reset_proxy_health_keeps_ban(stats) ==
  [p \in DOMAIN stats |->
     IF stats[p].consecutive_failures < HardFailures
     THEN [stats[p] EXCEPT !.consecutive_failures = 0]
     ELSE stats[p]]

_reset_proxy_health(stats) ==
  [p \in DOMAIN stats |->
     IF stats[p].consecutive_failures < HardFailures
     THEN [stats[p] EXCEPT !.consecutive_failures = 0, !.banned = FALSE]
     ELSE stats[p]]

\* [p for p in self.proxies if self.proxy_stats[p].is_healthy]
HealthyProxies(list, stats) ==
  LET Test(p) == is_healthy(stats[p]) IN SelectSeq(list, Test)

-----------------------------------------------------------------------------
(* _get_intelligent_proxy *)

\* mutation: the reset is made on every selection
IntelligentStats_always(list, stats) == _reset_proxy_health(stats)

\* the statistics after the exhaustion test of lines 117-122
IntelligentStats(list, stats) ==
  IF HealthyProxies(list, stats) = << >> THEN _reset_proxy_health(stats) ELSE stats

\* mutation: the candidates are not filtered by health
IntelligentCandidates_unfiltered(list, stats, groups, geo_preference) ==
  LET candidates == list
      InGroup(p) == p \in Range(groups[geo_preference])
  IN  IF geo_preference /= "None" /\ geo_preference \in DOMAIN groups
      THEN LET geo_candidates == SelectSeq(candidates, InGroup)
           IN  IF geo_candidates /= << >> THEN geo_candidates ELSE candidates
      ELSE candidates

\* mutation: the preference is not read
IntelligentCandidates_no_preference(list, stats, groups, geo_preference) ==
  LET healthy == HealthyProxies(list, stats)
  IN  IF healthy = << >> THEN list ELSE healthy

\* candidates after lines 117-128
IntelligentCandidates(list, stats, groups, geo_preference) ==
  LET healthy == HealthyProxies(list, stats)
      candidates == IF healthy = << >> THEN list ELSE healthy
      InGroup(p) == p \in Range(groups[geo_preference])
  IN  IF geo_preference /= "None" /\ geo_preference \in DOMAIN groups
      THEN LET geo_candidates == SelectSeq(candidates, InGroup)
           IN  IF geo_candidates /= << >> THEN geo_candidates ELSE candidates
      ELSE candidates

\* score = num / den, lines 138-143, over the common denominator 5 * T * (total + 1):
\*   0.5 * success_rate * 100 + 0.3 * 100 / (total + 1) + 0.2 * min(100, minutes)
ScoreDen(s) ==
  LET T == IF s.total_requests = 0 THEN 1 ELSE s.total_requests
  IN  5 * T * (s.total_requests + 1)

ScoreNum(s, current_time) ==
  LET T == IF s.total_requests = 0 THEN 1 ELSE s.total_requests
      S == IF s.total_requests = 0 THEN 1 ELSE s.successful_requests
      recency == Min2(100, current_time - s.last_used)
  IN  250 * S * (s.total_requests + 1) + 150 * T + recency * T * (s.total_requests + 1)

ScoreGreater(s, t, current_time) ==
  ScoreNum(s, current_time) * ScoreDen(t) > ScoreNum(t, current_time) * ScoreDen(s)

ScoreEqual(s, t, current_time) ==
  ScoreNum(s, current_time) * ScoreDen(t) = ScoreNum(t, current_time) * ScoreDen(s)

\* position (from 0) of candidates[i] after scores.sort(reverse=True): the sort is
\* stable, so equal scores keep their order in candidates
SortedPosition(candidates, stats, current_time, i) ==
  Cardinality({j \in 1..Len(candidates) :
      \/ ScoreGreater(stats[candidates[j]], stats[candidates[i]], current_time)
      \/ /\ ScoreEqual(stats[candidates[j]], stats[candidates[i]], current_time)
         /\ j < i})

\* mutation: the sort is ascending (reverse=True forgotten)
TopCandidates_ascending(candidates, stats, current_time) ==
  {candidates[i] : i \in {k \in 1..Len(candidates) :
      Cardinality({j \in 1..Len(candidates) :
          \/ ScoreGreater(stats[candidates[k]], stats[candidates[j]], current_time)
          \/ /\ ScoreEqual(stats[candidates[j]], stats[candidates[k]], current_time)
             /\ j < k})
        < Min2(TopBand, Len(candidates))}}

\* scores[:min(5, len(scores))], as the set of its proxies
TopCandidates(candidates, stats, current_time) ==
  {candidates[i] : i \in {k \in 1..Len(candidates) :
      SortedPosition(candidates, stats, current_time, k) < Min2(TopBand, Len(candidates))}}

_get_intelligent_proxy(geo_preference) ==
  LET stats == IntelligentStats(proxies, proxy_stats)
      candidates == IntelligentCandidates(proxies, proxy_stats, geo_groups, geo_preference)
      top == TopCandidates(candidates, stats, now)
  IN  IF top = {}
      THEN \* random.choice of an empty list
           /\ ret' = "IndexError"
           /\ proxy_stats' = stats
           /\ UNCHANGED current_proxy
      ELSE \E selected \in top :
           /\ ret' = selected
           /\ current_proxy' = selected
           /\ proxy_stats' = [stats EXCEPT ![selected].last_used = now]

-----------------------------------------------------------------------------
(* _get_least_used_proxy, _get_random_healthy_proxy *)

\* mutation: no fallback to the full list
HealthyOrAll_no_fallback(list, stats) == HealthyProxies(list, stats)

HealthyOrAll(list, stats) ==
  LET healthy_proxies == HealthyProxies(list, stats)
  IN  IF healthy_proxies = << >> THEN list ELSE healthy_proxies

\* mutation: the key is not read, the first element is returned
MinByRequests_first(list, stats) == list[1]

\* Python min(list, key): the first element whose key is minimal
MinByRequests(list, stats) ==
  LET i == CHOOSE k \in 1..Len(list) :
             /\ \A j \in 1..Len(list) : stats[list[k]].total_requests <= stats[list[j]].total_requests
             /\ \A j \in 1..(k - 1) : stats[list[j]].total_requests > stats[list[k]].total_requests
  IN  list[i]

_get_least_used_proxy ==
  LET healthy_proxies == HealthyOrAll(proxies, proxy_stats)
  IN  /\ ret' = IF healthy_proxies = << >> THEN "ValueError"
                ELSE MinByRequests(healthy_proxies, proxy_stats)
      /\ UNCHANGED <<proxy_stats, current_proxy>>

_get_random_healthy_proxy ==
  LET healthy_proxies == HealthyOrAll(proxies, proxy_stats)
  IN  /\ IF healthy_proxies = << >> THEN ret' = "IndexError"
         ELSE ret' \in Range(healthy_proxies)
      /\ UNCHANGED <<proxy_stats, current_proxy>>

-----------------------------------------------------------------------------
(* _get_round_robin_proxy *)

\* list.index(x), from 0; -1 stands for ValueError
RECURSIVE IndexFrom(_, _, _)
IndexFrom(list, x, i) ==
  IF i > Len(list) THEN -1
  ELSE IF list[i] = x THEN i - 1 ELSE IndexFrom(list, x, i + 1)

\* the while loop of lines 185-187; indices from 0
RECURSIVE SkipUnhealthy(_, _, _, _)
SkipUnhealthy(list, stats, next_index, attempts) ==
  IF ~is_healthy(stats[list[next_index + 1]]) /\ attempts < Len(list)
  THEN SkipUnhealthy(list, stats, (next_index + 1) % Len(list), attempts + 1)
  ELSE next_index

_get_round_robin_proxy ==
  /\ UNCHANGED proxy_stats
  /\ IF current_proxy = "None"
     THEN IF proxies = << >>
          THEN ret' = "IndexError" /\ UNCHANGED current_proxy
          ELSE ret' = proxies[1] /\ current_proxy' = proxies[1]
     ELSE LET current_index == IndexFrom(proxies, current_proxy, 1)
          IN  IF current_index = -1
              THEN ret' = "ValueError" /\ UNCHANGED current_proxy
              ELSE LET next_index == SkipUnhealthy(proxies, proxy_stats,
                                                   (current_index + 1) % Len(proxies), 0)
                   IN  ret' = proxies[next_index + 1] /\ current_proxy' = proxies[next_index + 1]

-----------------------------------------------------------------------------
(* get_next_proxy *)

get_next_proxy(geo_preference) ==
  /\ lastOp' = "get_next_proxy"
  /\ IF rotation_strategy = "intelligent" THEN _get_intelligent_proxy(geo_preference)
     ELSE IF rotation_strategy = "least_used" THEN _get_least_used_proxy
     ELSE IF rotation_strategy = "random" THEN _get_random_healthy_proxy
     ELSE _get_round_robin_proxy
  /\ UNCHANGED <<proxies, geo_groups, rotation_strategy, sweeps, sweep_tasks, calls, now,
                 timingVars>>

-----------------------------------------------------------------------------
(* record_request *)

\* n / 5^k with k minimal
RECURSIVE Normal(_)
Normal(a) == IF a.k > 0 /\ a.n % 5 = 0 THEN Normal([n |-> a.n \div 5, k |-> a.k - 1]) ELSE a

RECURSIVE Pow5(_)
Pow5(k) == IF k = 0 THEN 1 ELSE 5 * Pow5(k - 1)

\* avg * 0.8 + response_time * 0.2 = (4 * avg + response_time) / 5
RollingAverage(avg, response_time) ==
  Normal([n |-> 4 * avg.n + response_time * Pow5(avg.k), k |-> avg.k + 1])

\* mutation: failed_requests is not counted
RecordedStats_failed_uncounted(s, success, response_time) ==
  LET s1 == [s EXCEPT !.total_requests = @ + 1] IN
  IF success
  THEN [s1 EXCEPT !.successful_requests = @ + 1,
                  !.consecutive_failures = 0,
                  !.avg_response_time =
                      IF s.avg_response_time = ZeroAvg
                      THEN [n |-> response_time, k |-> 0]
                      ELSE RollingAverage(s.avg_response_time, response_time)]
  ELSE [s1 EXCEPT !.consecutive_failures = @ + 1,
                  !.banned = IF s.consecutive_failures + 1 >= BanThreshold THEN TRUE ELSE @]

\* mutation: total_requests is counted on success only
RecordedStats_failure_not_attempted(s, success, response_time) ==
  IF success
  THEN [s EXCEPT !.total_requests = @ + 1,
                 !.successful_requests = @ + 1,
                 !.consecutive_failures = 0,
                 !.avg_response_time =
                     IF s.avg_response_time = ZeroAvg
                     THEN [n |-> response_time, k |-> 0]
                     ELSE RollingAverage(s.avg_response_time, response_time)]
  ELSE [s EXCEPT !.failed_requests = @ + 1,
                 !.consecutive_failures = @ + 1,
                 !.banned = IF s.consecutive_failures + 1 >= BanThreshold THEN TRUE ELSE @]

\* mutation: the ban test is > instead of >=
RecordedStats_late_ban(s, success, response_time) ==
  LET s1 == [s EXCEPT !.total_requests = @ + 1] IN
  IF success
  THEN [s1 EXCEPT !.successful_requests = @ + 1,
                  !.consecutive_failures = 0,
                  !.avg_response_time =
                      IF s.avg_response_time = ZeroAvg
                      THEN [n |-> response_time, k |-> 0]
                      ELSE RollingAverage(s.avg_response_time, response_time)]
  ELSE [s1 EXCEPT !.failed_requests = @ + 1,
                  !.consecutive_failures = @ + 1,
                  !.banned = IF s.consecutive_failures + 1 > BanThreshold THEN TRUE ELSE @]

RecordedStats(s, success, response_time) ==
  LET s1 == [s EXCEPT !.total_requests = @ + 1] IN
  IF success
  THEN [s1 EXCEPT !.successful_requests = @ + 1,
                  !.consecutive_failures = 0,
                  !.avg_response_time =
                      IF s.avg_response_time = ZeroAvg
                      THEN [n |-> response_time, k |-> 0]
                      ELSE RollingAverage(s.avg_response_time, response_time)]
  ELSE [s1 EXCEPT !.failed_requests = @ + 1,
                  !.consecutive_failures = @ + 1,
                  !.banned = IF s.consecutive_failures + 1 >= BanThreshold THEN TRUE ELSE @]

TotalRequests(stats) ==
  LET ids == DOMAIN stats
      RECURSIVE Sum(_)
      Sum(S) == IF S = {} THEN 0
                ELSE LET x == CHOOSE y \in S : TRUE IN stats[x].total_requests + Sum(S \ {x})
  IN  Sum(ids)

TotalSuccesses(stats) ==
  LET RECURSIVE Sum(_)
      Sum(S) == IF S = {} THEN 0
                ELSE LET x == CHOOSE y \in S : TRUE IN stats[x].successful_requests + Sum(S \ {x})
  IN  Sum(DOMAIN stats)

\* the calls made so far, with one more for proxy
Called(made, proxy, success) ==
  IF success THEN [made EXCEPT ![proxy].successes = @ + 1]
  ELSE [made EXCEPT ![proxy].failures = @ + 1]

\* mutation: an unknown identifier is silently ignored
record_request_silent(proxy, success, response_time) ==
  /\ lastOp' = "record_request"
  /\ IF proxy \in DOMAIN proxy_stats
     THEN /\ proxy_stats' = [proxy_stats EXCEPT ![proxy] = RecordedStats(@, success, response_time)]
          /\ calls' = Called(calls, proxy, success)
     ELSE UNCHANGED <<proxy_stats, calls>>
  /\ ret' = "None"
  /\ UNCHANGED <<proxies, geo_groups, current_proxy, rotation_strategy, sweeps, sweep_tasks, now,
                 timingVars>>

record_request(proxy, success, response_time) ==
  /\ lastOp' = "record_request"
  /\ IF proxy \in DOMAIN proxy_stats
     THEN /\ proxy_stats' = [proxy_stats EXCEPT ![proxy] = RecordedStats(@, success, response_time)]
          /\ calls' = Called(calls, proxy, success)
          /\ ret' = "None"
     ELSE \* self.proxy_stats[proxy] raises before anything is written
          /\ ret' = "KeyError"
          /\ UNCHANGED <<proxy_stats, calls>>
  /\ UNCHANGED <<proxies, geo_groups, current_proxy, rotation_strategy, sweeps, sweep_tasks, now,
                 timingVars>>

-----------------------------------------------------------------------------
(* health_check_all *)

\* mutation: a successful probe clears the ban
ProbedStats_unbans(s, is_healthy_result) ==
  IF ~is_healthy_result
  THEN [s EXCEPT !.consecutive_failures = @ + 1,
                 !.banned = IF s.consecutive_failures + 1 >= BanThreshold THEN TRUE ELSE @]
  ELSE [s EXCEPT !.consecutive_failures = 0, !.banned = FALSE]

\* mutation: a failed probe is counted as a failed request
ProbedStats_counts_failure(s, is_healthy_result) ==
  IF ~is_healthy_result
  THEN [s EXCEPT !.consecutive_failures = @ + 1,
                 !.failed_requests = @ + 1,
                 !.total_requests = @ + 1,
                 !.banned = IF s.consecutive_failures + 1 >= BanThreshold THEN TRUE ELSE @]
  ELSE [s EXCEPT !.consecutive_failures = 0]

ProbedStats(s, is_healthy_result) ==
  IF ~is_healthy_result
  THEN [s EXCEPT !.consecutive_failures = @ + 1,
                 !.banned = IF s.consecutive_failures + 1 >= BanThreshold THEN TRUE ELSE @]
  ELSE [s EXCEPT !.consecutive_failures = 0]

\* the loop of lines 87-94 over zip(self.proxies, results), from position i
RECURSIVE SweepFrom(_, _, _, _)
SweepFrom(list, results, stats, i) ==
  IF i > Len(list) THEN stats
  ELSE SweepFrom(list, results,
                 [stats EXCEPT ![list[i]] = ProbedStats(@, results[i])], i + 1)

\* results[i]: TRUE when the probe of proxies[i] returned True; FALSE when it returned
\* False or an exception object
health_check_all ==
  /\ \E results \in [1..Len(proxies) -> BOOLEAN] :
       proxy_stats' = SweepFrom(proxies, results, proxy_stats, 1)
  /\ sweeps' = sweeps + 1
  /\ lastOp' = "health_check_all"
  /\ ret' = "None"
  /\ UNCHANGED <<proxies, geo_groups, current_proxy, rotation_strategy, sweep_tasks, calls, now,
                 timingVars>>

\* health_check_all up to its await (lines 84-85): one probe task per entry of
\* self.proxies is started and the coroutine yields to the event loop
health_check_all_await ==
  /\ sweep_tasks' = <<Len(proxies)>>
  /\ sweeps' = sweeps + 1
  /\ lastOp' = "health_check_all"
  /\ UNCHANGED <<proxies, proxy_stats, geo_groups, current_proxy, rotation_strategy, calls, now,
                 timingVars, ret>>

\* health_check_all from its await on (lines 85-94): the results of the tasks are
\* applied along zip(self.proxies, results) without another await
health_check_all_resume ==
  /\ sweep_tasks /= << >>
  /\ \E results \in [1..sweep_tasks[1] -> BOOLEAN] :
       proxy_stats' = SweepFrom(SubSeq(proxies, 1, Min2(Len(proxies), sweep_tasks[1])),
                                results, proxy_stats, 1)
  /\ sweep_tasks' = << >>
  /\ lastOp' = "health_check_all"
  /\ ret' = "None"
  /\ UNCHANGED <<proxies, geo_groups, current_proxy, rotation_strategy, sweeps, calls, now,
                 timingVars>>

-----------------------------------------------------------------------------
(* get_stats_summary *)

RECURSIVE Gcd(_, _)
Gcd(a, b) == IF b = 0 THEN a ELSE Gcd(b, a % b)

\* the rational n / d in lowest terms, d > 0
Frac(n, d) == LET g == Gcd(n, d) IN [n |-> n \div g, d |-> d \div g]

AddFrac(f, g) == Frac(f.n * g.d + g.n * f.d, f.d * g.d)

\* ProxyStats.success_rate as a rational
success_rate(s) ==
  IF s.total_requests = 0 THEN Frac(1, 1)
  ELSE Frac(s.successful_requests, s.total_requests)

\* sum(s.success_rate for s in self.proxy_stats.values())
RECURSIVE SumRates(_, _)
SumRates(stats, ids) ==
  IF ids = {} THEN Frac(0, 1)
  ELSE LET x == CHOOSE y \in ids : TRUE
       IN  AddFrac(success_rate(stats[x]), SumRates(stats, ids \ {x}))

\* the dictionary of lines 227-233, for a non-empty list
SummaryOf(list, stats) ==
  LET total == SumRates(stats, DOMAIN stats)
  IN  [total_proxies |-> Len(list),
       healthy_proxies |-> Cardinality({p \in DOMAIN stats : is_healthy(stats[p])}),
       banned_proxies |-> Cardinality({p \in DOMAIN stats : stats[p].banned}),
       total_requests |-> TotalRequests(stats),
       avg_success_rate |-> Frac(total.n, total.d * Len(list))]

get_stats_summary ==
  /\ ret' = IF Len(proxies) = 0
            THEN \* the division by len(self.proxies) at line 232
                 "ZeroDivisionError"
            ELSE SummaryOf(proxies, proxy_stats)
  /\ lastOp' = "get_stats_summary"
  /\ UNCHANGED <<poolVars, now, timingVars>>

-----------------------------------------------------------------------------
(* get_proxy_performance *)

\* the dictionary of lines 238-246 without its two formatted strings
\* ('success_rate', 'avg_response_time')
get_proxy_performance(proxy) ==
  /\ ret' = IF proxy \in DOMAIN proxy_stats
            THEN [proxy |-> proxy,
                  total_requests |-> proxy_stats[proxy].total_requests,
                  is_healthy |-> is_healthy(proxy_stats[proxy]),
                  banned |-> proxy_stats[proxy].banned,
                  consecutive_failures |-> proxy_stats[proxy].consecutive_failures]
            ELSE "KeyError"
  /\ lastOp' = "get_proxy_performance"
  /\ UNCHANGED <<poolVars, now, timingVars>>

-----------------------------------------------------------------------------
(* ProxyValidator *)

\* lower-cased keywords of line 289-290
DatacenterKeywords ==
  {"amazon", "google", "microsoft", "digitalocean", "ovh", "hetzner", "linode", "vultr"}

\* what the request of lines 276-280 ends in: a response with a status and the 'org'
\* of its body ("None": not read), asyncio.TimeoutError, or another exception
ProbeOutcomes ==
  {[kind |-> "response", status |-> 200, org |-> o] : o \in {"amazon", "comcast"}}
     \cup {[kind |-> "response", status |-> 503, org |-> "None"],
           [kind |-> "timeout", status |-> 0, org |-> "None"],
           [kind |-> "error", status |-> 0, org |-> "None"]}

\* mutation: a timeout leaves no reason in 'errors'
ValidationOf_no_reason(outcome) ==
  LET results == [valid |-> FALSE, is_residential |-> FALSE, isp |-> "None", errors |-> << >>]
  IN  CASE outcome.kind = "timeout" -> results
        [] outcome.kind = "error" -> [results EXCEPT !.errors = <<"ConnectionError">>]
        [] outcome.kind = "response" /\ outcome.status = 200 ->
             [results EXCEPT !.isp = outcome.org,
                             !.is_residential = outcome.org \notin DatacenterKeywords,
                             !.valid = TRUE]
        [] OTHER -> [results EXCEPT !.errors = <<"HTTP 503">>]

\* the results dictionary of validate_proxy: its 'valid', 'is_residential', 'isp' and
\* 'errors' entries
ValidationOf(outcome) ==
  LET results == [valid |-> FALSE, is_residential |-> FALSE, isp |-> "None", errors |-> << >>]
  IN  CASE outcome.kind = "timeout" -> [results EXCEPT !.errors = <<"Timeout">>]
        [] outcome.kind = "error" -> [results EXCEPT !.errors = <<"ConnectionError">>]
        [] outcome.kind = "response" /\ outcome.status = 200 ->
             [results EXCEPT !.isp = outcome.org,
                             !.is_residential = outcome.org \notin DatacenterKeywords,
                             !.valid = TRUE]
        [] OTHER -> [results EXCEPT !.errors = <<"HTTP 503">>]

validate_proxy(outcome) ==
  /\ ret' = ValidationOf(outcome)
  /\ lastOp' = "validate_proxy"
  /\ UNCHANGED <<poolVars, now, timingVars>>

\* mutation: the classification is not tested
Accepted_valid_only(result) == result.valid

\* the test of line 313
Accepted(result) == result.valid /\ result.is_residential

\* the loop of lines 312-318 over zip(proxy_list, results), from position i
RECURSIVE ValidatedFrom(_, _, _)
ValidatedFrom(proxy_list, results, i) ==
  IF i > Len(proxy_list) THEN << >>
  ELSE (IF Accepted(results[i]) THEN <<proxy_list[i]>> ELSE << >>)
          \o ValidatedFrom(proxy_list, results, i + 1)

\* outcomes[i]: what the probe of proxy_list[i] ends in
validate_proxy_list(proxy_list, outcomes) ==
  /\ ret' = ValidatedFrom(proxy_list, [i \in 1..Len(proxy_list) |-> ValidationOf(outcomes[i])], 1)
  /\ lastOp' = "validate_proxy_list"
  /\ UNCHANGED <<poolVars, now, timingVars>>

-----------------------------------------------------------------------------
(* The driver's validation step (main_bot.py) *)

\* run() validates pools of more than 5 proxies before the first view
ValidationMin == 5

\* validate_proxies: the list of the pool is replaced by the validated proxies;
\* proxy_stats and geo_groups stay as the constructor built them
validate_proxies(outcomes) ==
  /\ proxies' = ValidatedFrom(proxies, [i \in 1..Len(proxies) |-> ValidationOf(outcomes[i])], 1)
  /\ lastOp' = "validate_proxies"
  /\ ret' = "None"
  /\ UNCHANGED <<proxy_stats, geo_groups, current_proxy, rotation_strategy, sweeps, sweep_tasks,
                 calls, now, timingVars>>

-----------------------------------------------------------------------------
(* AdaptiveTiming.__init__ *)

TimingInit ==
  /\ successful_timings = << >>
  /\ failed_timings = << >>

-----------------------------------------------------------------------------
(* AdaptiveTiming.record_attempt *)

record_attempt(timing_data, success) ==
  /\ IF success
     THEN successful_timings' = Append(successful_timings, timing_data)
          /\ UNCHANGED failed_timings
     ELSE failed_timings' = Append(failed_timings, timing_data)
          /\ UNCHANGED successful_timings
  /\ lastOp' = "record_attempt"
  /\ ret' = "None"
  /\ UNCHANGED <<poolVars, now>>

-----------------------------------------------------------------------------
(* AdaptiveTiming.get_optimal_delay *)

\* Python s[-n:]
LastN(s, n) == IF Len(s) <= n THEN s ELSE SubSeq(s, Len(s) - n + 1, Len(s))

\* values np.random.uniform(120, 600) can return
UniformDraws == {ColdLow, (ColdLow + ColdHigh) \div 2, ColdHigh}

\* distances of a draw of np.random.normal(mean, std) from its mean, for std > 0:
\* the normal distribution has no bounded support
NormalOffsets == {-10000, -100, 0, 100, 10000}

\* mutation: the lower clamp is missing
ClampDelay_no_floor(optimal) == Min2(DelayHigh, optimal)

\* max(60, min(1800, optimal))
ClampDelay(optimal) == Max2(DelayLow, Min2(DelayHigh, optimal))

\* np.mean(delays), to the whole second below
MeanDelay(delays) == SumSeq(delays) \div Len(delays)

\* np.std(delays) = 0: every delay is the same
ZeroSpread(delays) == \A i, j \in 1..Len(delays) : delays[i] = delays[j]

\* the values get_optimal_delay can return for a success history
OptimalDelays(successes) ==
  IF Len(successes) < LearnedMin
  THEN UniformDraws
  ELSE LET window == LastN(successes, DelayWindow)
           delays == [i \in 1..Len(window) |-> window[i].inter_view_delay]
           mean_delay == MeanDelay(delays)
       IN  {ClampDelay(mean_delay + offset) :
               offset \in (IF ZeroSpread(delays) THEN {0} ELSE NormalOffsets)}

get_optimal_delay ==
  /\ ret' \in OptimalDelays(successful_timings)
  /\ lastOp' = "get_optimal_delay"
  /\ UNCHANGED <<poolVars, now, timingVars>>

-----------------------------------------------------------------------------
(* AdaptiveTiming.should_rotate_proxy *)

\* len([t for t in recent if t in self.successful_timings]): "in" compares the
\* dictionaries by value
CountedSuccesses(recent, successes) ==
  Cardinality({i \in 1..Len(recent) : recent[i] \in Range(successes)})

ShouldRotate(successes, failures) ==
  IF Len(successes) < RotateMin THEN TRUE
  ELSE LET recent == LastN(successes, RotateWindow) \o LastN(failures, RotateWindow)
       IN  \* success_rate < 0.7
           10 * CountedSuccesses(recent, successes) < 7 * Len(recent)

should_rotate_proxy ==
  /\ ret' = ShouldRotate(successful_timings, failed_timings)
  /\ lastOp' = "should_rotate_proxy"
  /\ UNCHANGED <<poolVars, now, timingVars>>

-----------------------------------------------------------------------------
(* generate_single_view and the end of run (main_bot.py) *)

\* success = response_time < 120 and engagement > 30 (line 481)
ViewTimeLimit == 120
EngagementMin == 30

\* random.uniform(180, 420), the delay after a failed view (line 544)
FailureDraws == {180, 300, 420}

\* how a view ends: at the navigation (lines 151-155), at the player (367-377), in
\* the outer handler (507-511), at the end of the view (479-505), or in the outer
\* handler after the records of lines 497 and 500 because browser.close() of line
\* 503 raised
ViewOutcomes ==
  {"navigation_failed", "player_not_found", "critical_error", "completed", "close_failed"}

\* one view under the default strategy: get_next_proxy() at line 81, then the
\* records of the path the view takes
generate_single_view(outcome, response_time, engagement) ==
  LET stats == IntelligentStats(proxies, proxy_stats)
      candidates == IntelligentCandidates(proxies, proxy_stats, geo_groups, "None")
      top == TopCandidates(candidates, stats, now)
      completed == outcome \in {"completed", "close_failed"}
      close_failed == outcome = "close_failed"
      success == completed /\ response_time < ViewTimeLimit /\ engagement > EngagementMin
      timing_data == [inter_view_delay |-> 0, response_time |-> response_time,
                      engagement |-> engagement]
  IN  /\ lastOp' = "generate_single_view"
      /\ IF top = {}
         THEN \* get_next_proxy raises outside the try block
              /\ ret' = "IndexError"
              /\ proxy_stats' = stats
              /\ UNCHANGED <<current_proxy, calls, timingVars>>
         ELSE \E proxy \in top :
              /\ current_proxy' = proxy
              /\ proxy_stats' =
                   [stats EXCEPT ![proxy] =
                      LET recorded == RecordedStats([@ EXCEPT !.last_used = now], success,
                                         IF outcome = "critical_error" THEN 0 ELSE response_time)
                      IN  IF close_failed THEN RecordedStats(recorded, FALSE, 0) ELSE recorded]
              /\ calls' = IF close_failed THEN Called(Called(calls, proxy, success), proxy, FALSE)
                          ELSE Called(calls, proxy, success)
              /\ IF ~completed THEN UNCHANGED timingVars
                 ELSE IF success
                 THEN /\ successful_timings' = Append(successful_timings, timing_data)
                      /\ UNCHANGED failed_timings
                 ELSE /\ failed_timings' = Append(failed_timings, timing_data)
                      /\ UNCHANGED successful_timings
              /\ ret' = IF close_failed THEN FALSE ELSE success
      /\ UNCHANGED <<proxies, geo_groups, rotation_strategy, sweeps, sweep_tasks, now>>

\* run after its while loop (lines 539-556): success is the result of the last view;
\* the delay is written into the last sample of the success history, and the wait of
\* lines 554-556 is made when views remain (completed_views, the number of successful
\* views, is below target_views)
run_after_loop(success) ==
  /\ IF successful_timings = << >>
     THEN ret' = "IndexError" /\ UNCHANGED successful_timings
     ELSE /\ \E optimal_delay \in (IF success THEN OptimalDelays(successful_timings)
                                              ELSE FailureDraws) :
               successful_timings' =
                 [successful_timings EXCEPT ![Len(successful_timings)].inter_view_delay =
                                               IF success THEN optimal_delay ELSE 0]
          /\ ret' = "None"
  /\ lastOp' = IF Len(successful_timings) < target_views THEN "asyncio.sleep" ELSE "run"
  /\ UNCHANGED <<poolVars, now, failed_timings>>

-----------------------------------------------------------------------------
(* The pool under its public operations *)

StartTime == 1000
GeoDraws == {"US", "EU"}
Preferences == {"None", "US"}

CallInit == lastOp = "init" /\ ret = "None"

Init ==
  /\ PoolInit(PoolLists, GeoDraws, {"intelligent"})
  /\ TimingInit
  /\ now = StartTime
  /\ CallInit

Select(prefs) == \E geo_preference \in prefs : get_next_proxy(geo_preference)

Record(ids, limit, successLimit) ==
  /\ TotalRequests(proxy_stats) < limit
  /\ \E proxy \in ids, success \in BOOLEAN, response_time \in ResponseTimes :
        /\ success => TotalSuccesses(proxy_stats) < successLimit
        /\ record_request(proxy, success, response_time)

Sweep(limit) == sweeps < limit /\ health_check_all

Next == Select(Preferences) \/ Record(ProxyIds, MaxRequests, MaxRequests) \/ Sweep(MaxSweeps)

\* the default strategy, pools of up to two resources in every grouping
Spec == Init /\ [][Next]_vars

StrategiesInit ==
  /\ PoolInit(PoolLists, {"US"}, Strategies)
  /\ TimingInit
  /\ now = StartTime
  /\ CallInit

StrategiesNext ==
  \/ Select({"None"})
  \/ Record(ProxyIds \cup {UnknownProxy}, MaxRequests, MaxRequests)
  \/ Sweep(MaxSweeps)

\* each of the four strategies, pools of up to two resources
SpecStrategies == StrategiesInit /\ [][StrategiesNext]_vars

DeepInit ==
  /\ PoolInit(DeepLists, {"US"}, {"intelligent"})
  /\ TimingInit
  /\ now = StartTime
  /\ CallInit

DeepNext ==
  \/ Select({"None"})
  \/ Record(ProxyIds \cup {UnknownProxy}, MaxDeepRequests, MaxDeepSuccesses)

\* the default strategy over a long history of mostly failed requests, without sweeps
SpecDeep == DeepInit /\ [][DeepNext]_vars

SummaryInit ==
  /\ PoolInit(PoolLists, {"US"}, {"intelligent"})
  /\ TimingInit
  /\ now = StartTime
  /\ CallInit

Summary == get_stats_summary

SummaryNext ==
  \/ Select({"None"})
  \/ Record(ProxyIds, MaxRequests, MaxRequests)
  \/ Sweep(MaxSweeps)
  \/ Summary

\* the default strategy with the summary query between the operations
SpecSummary == SummaryInit /\ [][SummaryNext]_vars

ConcurrentInit ==
  /\ PoolInit(PoolLists, {"US"}, {"intelligent"})
  /\ TimingInit
  /\ now = StartTime
  /\ CallInit

\* one sweep at a time
SweepBegin(limit) == sweeps < limit /\ sweep_tasks = << >> /\ health_check_all_await

SweepResume == health_check_all_resume

ConcurrentNext ==
  \/ Select({"None"})
  \/ Record(ProxyIds, MaxRequests, MaxRequests)
  \/ SweepBegin(MaxSweeps)
  \/ SweepResume

\* the driver's calls interleaved with a sweep that awaits its probes
SpecConcurrent == ConcurrentInit /\ [][ConcurrentNext]_vars

-----------------------------------------------------------------------------
(* The timing controller under its public operations *)

\* timing_data handed to record_attempt: the two differ in inter_view_delay only
TimingInputs ==
  {[inter_view_delay |-> d, response_time |-> 30, engagement |-> 50] : d \in {0, 300}}

TimingSpecInit ==
  /\ PoolInit({<<"A">>}, {"US"}, {"intelligent"})
  /\ TimingInit
  /\ now = StartTime
  /\ CallInit

Attempt ==
  \E timing_data \in TimingInputs, success \in BOOLEAN :
     /\ success => Len(successful_timings) < MaxSuccesses
     /\ ~success => Len(failed_timings) < MaxFailures
     /\ record_attempt(timing_data, success)

Delay == get_optimal_delay

Rotate == should_rotate_proxy

TimingNext == Attempt \/ Delay \/ Rotate

SpecTiming == TimingSpecInit /\ [][TimingNext]_vars

-----------------------------------------------------------------------------
(* The timing controller over a period of failures followed by successes *)

\* failed attempts recorded before the first success (SpecRecency)
MaxOldFailures == 5
\* successful attempts recorded after them (SpecRecency)
MaxRecentSuccesses == 20

\* timing_data of a view that succeeded and of one that did not (line 481 of
\* main_bot.py: response_time < 120 and engagement > 30)
SucceededSample == [inter_view_delay |-> 0, response_time |-> 30, engagement |-> 50]
FailedSample == [inter_view_delay |-> 0, response_time |-> 150, engagement |-> 20]

\* a failed attempt of the first period: no success has been recorded yet
OldFailure ==
  /\ successful_timings = << >>
  /\ Len(failed_timings) < MaxOldFailures
  /\ record_attempt(FailedSample, FALSE)

RecentSuccess ==
  /\ Len(successful_timings) < MaxRecentSuccesses
  /\ record_attempt(SucceededSample, TRUE)

RecencyNext == OldFailure \/ RecentSuccess \/ Rotate \/ Delay

\* every failure is recorded before the first success
SpecRecency == TimingSpecInit /\ [][RecencyNext]_vars

-----------------------------------------------------------------------------
(* The validator over lists of up to three entries *)

ValidateIds == {"A", "B", "C"}
\* the proxy lists over ValidateIds without repeated entries, in every order
ValidateLists ==
  UNION {{list \in [1..n -> ValidateIds] : \A i, j \in 1..n : list[i] = list[j] => i = j} :
            n \in 0..Cardinality(ValidateIds)}

ValidateInit ==
  /\ PoolInit(ValidateLists, {"US"}, {"intelligent"})
  /\ TimingInit
  /\ now = StartTime
  /\ CallInit

\* the validator is stateless: one call on each drawn list
ValidateOne == lastOp = "init" /\ \E outcome \in ProbeOutcomes : validate_proxy(outcome)

ValidateAll ==
  /\ lastOp = "init"
  /\ \E outcomes \in [1..Len(proxies) -> ProbeOutcomes] : validate_proxy_list(proxies, outcomes)

ValidateNext == ValidateOne \/ ValidateAll

SpecValidate == ValidateInit /\ [][ValidateNext]_vars

-----------------------------------------------------------------------------
(* The health predicate over drawn statistics *)

\* statistics of one resource after a history of requests and sweeps: any counters
\* with total = successes + failures, and a streak of 5 or more only when banned
HealthProfiles ==
  {[NewStats EXCEPT !.total_requests = t, !.successful_requests = s,
                    !.failed_requests = t - s, !.consecutive_failures = c,
                    !.banned = b,
                    !.avg_response_time = IF s = 0 THEN ZeroAvg ELSE [n |-> 2000, k |-> 0]] :
      t \in 0..MaxHealthTotal, s \in 0..MaxHealthTotal, c \in 0..MaxStreak, b \in BOOLEAN}

\* sweeps counts the sweeps from this state on
HealthInit ==
  /\ proxies = <<"A">>
  /\ proxy_stats \in [{"A"} -> {h \in HealthProfiles :
                                  /\ h.successful_requests <= h.total_requests
                                  /\ h.consecutive_failures >= BanThreshold => h.banned}]
  /\ geo_groups = _group_by_geo(proxies, <<"US">>)
  /\ current_proxy = "None"
  /\ rotation_strategy = "intelligent"
  /\ sweeps = 0
  /\ sweep_tasks = << >>
  /\ calls = CallsOf(proxy_stats)
  /\ TimingInit
  /\ now = StartTime
  /\ CallInit

Performance == \E proxy \in Range(proxies) : get_proxy_performance(proxy)

HealthNext == Performance

SpecHealth == HealthInit /\ [][HealthNext]_vars

-----------------------------------------------------------------------------
(* The summary after the driver's validation step *)

ValidatedInit ==
  /\ PoolInit({<<"A", "B", "C", "D", "E", "F">>}, {"US"}, {"intelligent"})
  /\ TimingInit
  /\ now = StartTime
  /\ CallInit

\* the first step of run(), for a pool of more than ValidationMin proxies
ValidateProxies ==
  /\ lastOp = "init"
  /\ Len(proxies) > ValidationMin
  /\ \E outcomes \in [1..Len(proxies) -> ProbeOutcomes] : validate_proxies(outcomes)

ValidatedNext == ValidateProxies \/ Summary

SpecValidated == ValidatedInit /\ [][ValidatedNext]_vars

-----------------------------------------------------------------------------
(* The driver loop *)

RunInit ==
  /\ PoolInit({<<"A">>, <<"A", "B">>}, {"US"}, {"intelligent"})
  /\ TimingInit
  /\ now = StartTime
  /\ CallInit

\* one pass of the while loop of run (lines 533-537)
View ==
  /\ lastOp \notin {"run", "asyncio.sleep"}
  /\ Len(successful_timings) < target_views
  /\ TotalRequests(proxy_stats) < MaxViews
  /\ \E outcome \in ViewOutcomes, response_time \in {30, 150}, engagement \in {20, 50} :
        generate_single_view(outcome, response_time, engagement)

\* the loop ends when completed_views, the number of successful views, reaches
\* target_views
AfterLoop ==
  /\ lastOp = "generate_single_view"
  /\ Len(successful_timings) >= target_views
  /\ run_after_loop(ret)

RunNext == View \/ AfterLoop

SpecRun == RunInit /\ [][RunNext]_vars

-----------------------------------------------------------------------------
(* Intelligent selection over a pool of six resources *)

ScoreList == <<"A", "B", "C", "D", "E", "F">>
\* the outcome of _group_by_geo: F alone in its region
ScoreRegions == [i \in 1..6 |-> IF i = 6 THEN "US" ELSE "EU"]
\* states of one resource after a short history that ended before StartTime:
\* never used; selected 10 minutes ago and succeeded once; selected long ago, one
\* success then one failure; selected 10 minutes ago and failed three times
ScoreProfiles ==
  { NewStats,
    [NewStats EXCEPT !.total_requests = 1, !.successful_requests = 1,
                     !.avg_response_time = [n |-> 2000, k |-> 0],
                     !.last_used = StartTime - 10],
    [NewStats EXCEPT !.total_requests = 2, !.successful_requests = 1,
                     !.failed_requests = 1, !.consecutive_failures = 1,
                     !.avg_response_time = [n |-> 2000, k |-> 0],
                     !.last_used = StartTime - 200],
    [NewStats EXCEPT !.total_requests = 3, !.failed_requests = 3,
                     !.consecutive_failures = 3,
                     !.last_used = StartTime - 10] }

\* the resource selected last: one of the latest last_used, if any was selected
LatestUsed(stats) ==
  LET used == {p \in DOMAIN stats : stats[p].last_used > 0}
  IN  IF used = {} THEN "None"
      ELSE CHOOSE p \in used : \A q \in used : stats[q].last_used <= stats[p].last_used

ScoreInit ==
  /\ proxies = ScoreList
  /\ proxy_stats \in [Range(ScoreList) -> ScoreProfiles]
  /\ geo_groups = _group_by_geo(ScoreList, ScoreRegions)
  /\ current_proxy = LatestUsed(proxy_stats)
  /\ rotation_strategy = "intelligent"
  /\ sweeps = 0
  /\ sweep_tasks = << >>
  /\ calls = CallsOf(proxy_stats)
  /\ TimingInit
  /\ now = StartTime
  /\ CallInit

\* at most MaxSelected selections are explored
ScoreSelect ==
  /\ Cardinality({p \in DOMAIN proxy_stats : proxy_stats[p].last_used = now}) < MaxSelected
  /\ Select(Preferences)

ScoreNext == ScoreSelect

SpecScore == ScoreInit /\ [][ScoreNext]_vars

-----------------------------------------------------------------------------
(* Properties of the pool *)

Members == Range(proxies)
Stat(p) == proxy_stats[p]
Healthy(p) == is_healthy(proxy_stats[p])
HealthyAfter(p) == is_healthy(proxy_stats'[p])

\* a step that is a call of get_next_proxy
SelectStep == lastOp' = "get_next_proxy"
\* a call of get_next_proxy that invokes _reset_proxy_health (lines 119-121)
RecoveryStep ==
  /\ SelectStep
  /\ rotation_strategy = "intelligent"
  /\ HealthyProxies(proxies, proxy_stats) = << >>

\* C1: after every record_request call of any sequence, every resource has
\* total_requests = successful_requests + failed_requests.
C1_CountersAddUp ==
  \A p \in DOMAIN proxy_stats :
     Stat(p).total_requests = Stat(p).successful_requests + Stat(p).failed_requests

C1_Witness ==
  /\ lastOp = "record_request"
  /\ \E p \in Members : Stat(p).successful_requests >= 1 /\ Stat(p).failed_requests >= 2

C3_Original ==
  \A p \in DOMAIN proxy_stats :
     Stat(p).banned <=> Stat(p).consecutive_failures >= BanThreshold

\* C3 as amended: a resource with at least 5 consecutive failures is banned, and a
\* resource becomes banned only in a step that leaves it with at least 5 consecutive
\* failures; the ban outlives a later success.
C3_BannedAtFiveFailures ==
  /\ [](\A p \in DOMAIN proxy_stats :
           Stat(p).consecutive_failures >= BanThreshold => Stat(p).banned)
  /\ [][\A p \in DOMAIN proxy_stats :
           (~Stat(p).banned /\ proxy_stats'[p].banned)
              => proxy_stats'[p].consecutive_failures >= BanThreshold]_vars

C3_Witness ==
  /\ lastOp = "record_request"
  /\ \E p \in Members :
        /\ Stat(p).banned
        /\ Stat(p).consecutive_failures = 0
        /\ Stat(p).successful_requests = 1
        /\ Stat(p).failed_requests = 4
        /\ sweeps = 1

\* C4: under the intelligent strategy a resource with 5 consecutive failures is not
\* healthy, and get_next_proxy returns a healthy resource whenever some resource of
\* the pool is healthy.
C4_HealthyPreferred ==
  /\ [](\A p \in DOMAIN proxy_stats :
           Stat(p).consecutive_failures >= BanThreshold => ~Healthy(p))
  /\ [][(SelectStep /\ rotation_strategy = "intelligent" /\ \E q \in Members : Healthy(q))
           => (ret' \in Members /\ Healthy(ret'))]_vars

C4_Witness ==
  /\ lastOp = "get_next_proxy"
  /\ rotation_strategy = "intelligent"
  /\ ret \in Members
  /\ Healthy(ret)
  /\ \E p \in Members : Stat(p).consecutive_failures >= BanThreshold /\ Stat(p).banned

\* C5: on a non-empty pool get_next_proxy returns a member of the pool under every
\* strategy, also when no resource is healthy; it never ends in an exception.
C5_SelectionReturnsMember ==
  (lastOp = "get_next_proxy" /\ proxies /= << >>) => ret \in Members

C5_Witness ==
  /\ lastOp = "get_next_proxy"
  /\ rotation_strategy = "round_robin"
  /\ Len(proxies) = 2
  /\ ret \in Members
  /\ ret = proxies[2]
  /\ \A p \in Members : ~Healthy(p)

\* C6: _reset_proxy_health leaves banned and consecutive_failures of every resource
\* with consecutive_failures >= 10 as they were.
C6_HardFailuresKept ==
  [][RecoveryStep =>
       \A p \in DOMAIN proxy_stats :
          Stat(p).consecutive_failures >= HardFailures
             => /\ proxy_stats'[p].consecutive_failures = Stat(p).consecutive_failures
                /\ proxy_stats'[p].banned = Stat(p).banned]_vars

\* the recovery reset B (its 3 failures left no streak) and kept A
C6_Witness ==
  /\ lastOp = "get_next_proxy"
  /\ sweeps = 0
  /\ \E p, q \in Members :
        /\ Stat(p).consecutive_failures >= HardFailures /\ Stat(p).banned
        /\ Stat(q).consecutive_failures = 0
        /\ Stat(q).failed_requests >= 3 /\ Stat(q).successful_requests = 0

\* C7 as stated: when _reset_proxy_health is invoked on a non-empty pool with a
\* resource of consecutive_failures < 10, some resource is healthy afterwards.
C7_Original ==
  [][(RecoveryStep /\ \E p \in Members : Stat(p).consecutive_failures < HardFailures)
        => \E q \in Members : HealthyAfter(q)]_vars

\* C7 as amended: every resource with consecutive_failures < 10 has consecutive_failures
\* = 0 and banned = false afterwards, and is healthy afterwards unless its
\* total_requests > 10 with success rate < 0.5; the selection returns a pool member.
C7_RecoveryRestores ==
  [][(RecoveryStep /\ \E p \in Members : Stat(p).consecutive_failures < HardFailures)
        => /\ ret' \in Members
           /\ \A p \in Members :
                Stat(p).consecutive_failures < HardFailures
                  => /\ proxy_stats'[p].consecutive_failures = 0
                     /\ ~proxy_stats'[p].banned
                     /\ HealthyAfter(p) <=>
                           ~(Stat(p).total_requests > MinSampleSize /\ RateBelowHalf(Stat(p)))]_vars

\* a recovered resource: banned by 5 failures, none since, and healthy again
C7_Witness ==
  /\ lastOp = "get_next_proxy"
  /\ sweeps = 0
  /\ \E p \in Members :
        /\ Stat(p).failed_requests = 5 /\ Stat(p).successful_requests = 0
        /\ Stat(p).consecutive_failures = 0
        /\ ~Stat(p).banned
        /\ Healthy(p)

-----------------------------------------------------------------------------
(* Properties of intelligent selection *)

\* 10 * T * (total + 1) times the score the claim states, with T = total or 1:
\*   0.5 * successRate * 100 + 0.3 * (100 / (total + 1)) + 0.2 * min(100, minutes)
C8_Score(s, t) ==
  LET T == IF s.total_requests = 0 THEN 1 ELSE s.total_requests
      S == IF s.total_requests = 0 THEN 1 ELSE s.successful_requests
      minutes == t - s.last_used
      recency == IF minutes < 100 THEN minutes ELSE 100
  IN  [num |-> 500 * S * (s.total_requests + 1) + 300 * T
                 + 2 * recency * T * (s.total_requests + 1),
       den |-> 10 * T * (s.total_requests + 1)]

C8_Higher(s1, s2, t) ==
  C8_Score(s1, t).num * C8_Score(s2, t).den > C8_Score(s2, t).num * C8_Score(s1, t).den

\* fewer than 5 of the candidates score higher than r
C8_InBand(candidates, r) ==
  /\ r \in Range(candidates)
  /\ Cardinality({i \in 1..Len(candidates) :
        C8_Higher(proxy_stats[candidates[i]], proxy_stats[r], now)}) < TopBand

-----------------------------------------------------------------------------
(* Properties of the timing controller *)

\* C9: get_optimal_delay returns a value in [120, 600] when fewer than 10 successes are
\* recorded and a value in [60, 1800] otherwise, whatever the delays and the draw.
C9_DelayWithinBounds ==
  lastOp = "get_optimal_delay" =>
     IF Len(successful_timings) < LearnedMin
     THEN ret >= ColdLow /\ ret <= ColdHigh
     ELSE ret >= DelayLow /\ ret <= DelayHigh

\* a learned delay drawn below the lower clamp: ten successes of differing delays
C9_Witness ==
  /\ lastOp = "get_optimal_delay"
  /\ Len(successful_timings) >= LearnedMin
  /\ \E i, j \in 1..Len(successful_timings) :
        successful_timings[i].inter_view_delay /= successful_timings[j].inter_view_delay
  /\ ret = DelayLow

\* C10 as stated: should_rotate_proxy returns true with fewer than 5 successes, and
\* otherwise exactly when the share of successes among the last 10 successes and the
\* last 10 failures is below 0.7.
C10_Original ==
  lastOp = "should_rotate_proxy" =>
     LET nS == Min2(RotateWindow, Len(successful_timings))
         nF == Min2(RotateWindow, Len(failed_timings))
     IN  ret = (IF Len(successful_timings) < RotateMin THEN TRUE
                ELSE 10 * nS < 7 * (nS + nF))

-----------------------------------------------------------------------------
(* Error handling of the pool *)

\* C11: record_request with an identifier that is not a key of proxy_stats ends in
\* KeyError and leaves the statistics of every resource as they were.
C11_UnknownIdRaises ==
  [][\A proxy \in ProxyIds \cup {UnknownProxy} :
        (/\ proxy \notin DOMAIN proxy_stats
         /\ \E success \in BOOLEAN, response_time \in ResponseTimes :
               record_request(proxy, success, response_time))
           => (ret' = "KeyError" /\ proxy_stats' = proxy_stats)]_vars

\* the error came after requests were recorded for the resources of the pool
C11_Witness ==
  /\ lastOp = "record_request"
  /\ ret = "KeyError"
  /\ \E p \in Members : Stat(p).successful_requests >= 1 /\ Stat(p).failed_requests >= 1

\* C12 as stated: the constructor rejects an empty proxy_list, so get_next_proxy and
\* get_stats_summary are never called on a pool whose list is empty.
C12_Original ==
  proxies = << >> => lastOp \notin {"get_next_proxy", "get_stats_summary"}

-----------------------------------------------------------------------------
(* Properties of the validator *)

\* the probe succeeded and the classification passed
C13_Passed(outcome) ==
  /\ outcome.kind = "response"
  /\ outcome.status = 200
  /\ outcome.org \notin DatacenterKeywords

\* r lists exactly the entries of list at the positions idx, in their order
C13_ExactlyAt(list, idx, r) ==
  /\ Len(r) = Cardinality(idx)
  /\ \E f \in [1..Len(r) -> idx] :
        /\ \A j, k \in 1..Len(r) : j < k => f[j] < f[k]
        /\ \A k \in 1..Len(r) : r[k] = list[f[k]]

\* C13: for every list and every combination of probe outcomes validate_proxy_list
\* returns exactly the entries whose probe succeeded and whose classification passed,
\* in the order of the input list.
C13_ValidatedExactly ==
  [][\A outcomes \in [1..Len(proxies) -> ProbeOutcomes] :
        (lastOp' = "validate_proxy_list" /\ validate_proxy_list(proxies, outcomes))
           => C13_ExactlyAt(proxies,
                            {i \in 1..Len(proxies) : C13_Passed(outcomes[i])}, ret')]_vars

\* of three entries the first and the last were accepted
C13_Witness ==
  /\ lastOp = "validate_proxy_list"
  /\ proxies = <<"C", "A", "B">>
  /\ ret = <<"C", "B">>

\* the probe timed out or ended in a transport error
C14_Failed(outcome) == outcome.kind \in {"timeout", "error"}

\* the entries of s at the positions of keep, from position i
RECURSIVE C14_Kept(_, _, _)
C14_Kept(s, keep, i) ==
  IF i > Len(s) THEN << >>
  ELSE (IF i \in keep THEN <<s[i]>> ELSE << >>) \o C14_Kept(s, keep, i + 1)

\* C14: for a probe that times out or fails in transport validate_proxy returns a
\* rejection with a reason in 'errors', and validate_proxy_list returns a list that
\* is the result for the other probes alone, without the failed entries.
C14_FailedProbeRejected ==
  /\ [][\A outcome \in ProbeOutcomes :
           (C14_Failed(outcome) /\ lastOp' = "validate_proxy" /\ validate_proxy(outcome))
              => (~ret'.valid /\ Len(ret'.errors) >= 1)]_vars
  /\ [][\A outcomes \in [1..Len(proxies) -> ProbeOutcomes] :
           (lastOp' = "validate_proxy_list" /\ validate_proxy_list(proxies, outcomes))
              => LET keep == {i \in 1..Len(proxies) : ~C14_Failed(outcomes[i])}
                     results == [i \in 1..Len(proxies) |-> ValidationOf(outcomes[i])]
                 IN  /\ ret' = ValidatedFrom(C14_Kept(proxies, keep, 1),
                                             C14_Kept(results, keep, 1), 1)
                     /\ \A i \in 1..Len(proxies) :
                           (C14_Failed(outcomes[i])
                              /\ \A j \in keep : proxies[j] /= proxies[i])
                              => proxies[i] \notin Range(ret')]_vars

C14_Witness ==
  /\ lastOp = "validate_proxy"
  /\ ~ret.valid
  /\ ret.errors = <<"Timeout">>

-----------------------------------------------------------------------------
(* Properties of the health predicate *)

\* successRate >= 0.5, with successRate = 1.0 at zero attempts
C15_RateAtLeastHalf(s) ==
  IF s.total_requests = 0 THEN TRUE ELSE 2 * s.successful_requests >= s.total_requests

\* C15: for every combination of statistics is_healthy equals: not banned and
\* consecutive_failures < 3 and (total_requests <= 10 or success_rate >= 0.5).
C15_HealthFormula ==
  lastOp = "get_proxy_performance" =>
     \A p \in Members :
        ret.proxy = p =>
           ret.is_healthy = (/\ ~Stat(p).banned
                             /\ Stat(p).consecutive_failures < 3
                             /\ (Stat(p).total_requests <= 10 \/ C15_RateAtLeastHalf(Stat(p))))

\* unhealthy by the success rate alone: 5 successes in 11 requests
C15_Witness ==
  /\ lastOp = "get_proxy_performance"
  /\ ~ret.is_healthy
  /\ \E p \in Members :
        /\ ret.proxy = p
        /\ Stat(p).total_requests = 11 /\ Stat(p).successful_requests = 5
        /\ Stat(p).consecutive_failures = 0 /\ ~Stat(p).banned

-----------------------------------------------------------------------------
(* The ban over the operations of the pool *)

\* C16: banned of a resource goes from true to false only in a call of
\* get_next_proxy that invokes _reset_proxy_health; record_request, health_check_all
\* and every other selection leave a ban in place.
C16_BanClearedByRecoveryOnly ==
  [][\A p \in DOMAIN proxy_stats :
        (Stat(p).banned /\ ~proxy_stats'[p].banned) => RecoveryStep]_vars

\* a resource banned by 5 failures in a row was cleared and selected
C16_Witness ==
  /\ lastOp = "get_next_proxy"
  /\ sweeps = 0
  /\ ret \in Members
  /\ Stat(ret).failed_requests = BanThreshold /\ Stat(ret).successful_requests = 0
  /\ ~Stat(ret).banned

-----------------------------------------------------------------------------
(* Concurrency of the pool *)

\* C17: however record_request calls interleave with a health sweep that awaits its
\* probes, the counters of every resource equal the calls made for it:
\* successful_requests the successes reported, failed_requests the failures, and
\* total_requests their sum.
C17_NoLostUpdate ==
  \A p \in DOMAIN proxy_stats :
     /\ Stat(p).successful_requests = calls[p].successes
     /\ Stat(p).failed_requests = calls[p].failures
     /\ Stat(p).total_requests = calls[p].successes + calls[p].failures

\* a success and a failure of one resource were recorded, the last call while the
\* sweep awaited its probes
C17_Witness ==
  /\ sweep_tasks /= << >>
  /\ lastOp = "record_request"
  /\ Len(proxies) = 2
  /\ \E p \in Members : calls[p].successes >= 1 /\ calls[p].failures >= 1

-----------------------------------------------------------------------------
(* Properties of the summary *)

\* the mean of success_rate over the resources of the list
C18_MeanRate(list, stats) ==
  LET total == SumRates(stats, Range(list))
  IN  Frac(total.n, total.d * Cardinality(Range(list)))

\* C18 as stated: get_stats_summary changes nothing, and on a non-empty pool the
\* values it returns are the number of resources, the number of healthy resources,
\* the number of banned resources and the mean success_rate of the current state.
C18_Original ==
  (lastOp = "get_stats_summary" /\ proxies /= << >>) =>
     /\ ret.total_proxies = Cardinality(Members)
     /\ ret.healthy_proxies = Cardinality({p \in Members : Healthy(p)})
     /\ ret.banned_proxies = Cardinality({p \in Members : Stat(p).banned})
     /\ ret.avg_success_rate = C18_MeanRate(proxies, proxy_stats)

-----------------------------------------------------------------------------
(* Properties of the timing histories *)

\* s is an initial part of t
C19_Prefix(s, t) == Len(s) <= Len(t) /\ \A i \in 1..Len(s) : t[i] = s[i]

\* C19 as stated: every step leaves the samples already in successful_timings and
\* failed_timings in place and unmodified, and appends at most one sample to one of
\* the two histories.
C19_Original ==
  [][/\ C19_Prefix(successful_timings, successful_timings')
     /\ C19_Prefix(failed_timings, failed_timings')
     /\ Len(successful_timings') + Len(failed_timings')
           <= Len(successful_timings) + Len(failed_timings) + 1]_vars

-----------------------------------------------------------------------------
(* Properties of round-robin selection *)

\* position (from 0) after the cursor; before the first call the cursor is before
\* the first position
C20_Start ==
  IF current_proxy = "None" THEN 0
  ELSE (IndexFrom(proxies, current_proxy, 1) + 1) % Len(proxies)

\* the first healthy resource in cyclic order from C20_Start, else the resource at
\* C20_Start
C20_Expected ==
  LET n == Len(proxies)
      At(k) == proxies[((C20_Start + k) % n) + 1]
      found == {k \in 0..(n - 1) : Healthy(At(k))}
  IN  IF found = {} THEN At(0)
      ELSE At(CHOOSE k \in found : \A j \in found : k <= j)

\* C20 as stated: under round_robin every call of get_next_proxy on a non-empty
\* pool, the first one included, returns the first healthy resource in cyclic list
\* order from the position after the cursor, or the resource at that position when
\* none is healthy, and leaves the list as it is.
C20_Original ==
  [][(SelectStep /\ rotation_strategy = "round_robin" /\ proxies /= << >>)
        => (ret' = C20_Expected /\ proxies' = proxies)]_vars

-----------------------------------------------------------------------------
(* Properties of least-used selection *)

\* the healthy resources whose total_requests is minimal among the healthy ones
C21_MinimalHealthy ==
  {p \in Members : /\ Healthy(p)
                   /\ \A q \in Members : Healthy(q) => Stat(p).total_requests <= Stat(q).total_requests}

\* the one of them that comes first in the list
C21_Expected ==
  proxies[CHOOSE i \in 1..Len(proxies) :
             /\ proxies[i] \in C21_MinimalHealthy
             /\ \A j \in 1..(i - 1) : proxies[j] \notin C21_MinimalHealthy]

\* C21: under least_used, when some resource is healthy, get_next_proxy returns a
\* healthy resource whose total_requests is minimal among the healthy resources; the
\* result is a function of the pool state (of the minimal ones, the first in list
\* order) and the call leaves the pool state as it is, so that it is repeated on
\* every call.
C21_LeastUsedMinimal ==
  [][(SelectStep /\ rotation_strategy = "least_used" /\ \E q \in Members : Healthy(q))
        => /\ ret' \in C21_MinimalHealthy
           /\ ret' = C21_Expected
           /\ UNCHANGED <<proxies, proxy_stats>>]_vars

\* the second resource of the list was returned: it is healthy with fewer requests
\* than the first, which is healthy too
C21_Witness ==
  /\ lastOp = "get_next_proxy"
  /\ rotation_strategy = "least_used"
  /\ Len(proxies) = 2
  /\ ret = proxies[2]
  /\ Healthy(proxies[1]) /\ Healthy(proxies[2])
  /\ Stat(proxies[2]).total_requests < Stat(proxies[1]).total_requests

-----------------------------------------------------------------------------
(* Properties of the preference group *)

\* the candidate set before the preference is read: the healthy resources, or every
\* resource when none is healthy
C22_Candidates ==
  IF \E p \in Members : Healthy(p) THEN {p \in Members : Healthy(p)} ELSE Members

\* the resources of the preference group, none when the group does not exist
C22_Group(geo_preference) ==
  IF geo_preference \in DOMAIN geo_groups THEN Range(geo_groups[geo_preference]) ELSE {}

\* C22: a call get_next_proxy(geo_preference) under the intelligent strategy on a
\* non-empty pool returns a candidate of the preference group when a preference is
\* given and some candidate belongs to its group, and a resource of the unrestricted
\* candidate set when no candidate belongs to it or no preference is given.
C22_PreferenceNarrows ==
  [][\A geo_preference \in Preferences :
        (get_next_proxy(geo_preference) /\ rotation_strategy = "intelligent" /\ proxies /= << >>)
          => IF geo_preference /= "None" /\ C22_Candidates \cap C22_Group(geo_preference) /= {}
             THEN ret' \in C22_Candidates \cap C22_Group(geo_preference)
             ELSE ret' \in C22_Candidates]_vars

\* F, alone in its group, was returned although the five other resources are healthy
\* and score higher (never used: score 100): F is outside the top five of the
\* unrestricted candidates, so the preference narrowed the candidates to F
C22_Witness ==
  /\ lastOp = "get_next_proxy"
  /\ ret = "F"
  /\ C22_Group("US") = {"F"}
  /\ Healthy("F")
  /\ Stat("F").total_requests = 2 /\ Stat("F").successful_requests = 1
  /\ \A p \in Members \ {"F"} : Healthy(p) /\ Stat(p).total_requests = 0

-----------------------------------------------------------------------------
(* Properties of last_used *)

\* C23 as stated: after every call of get_next_proxy, under each of the four
\* strategies, last_used of the returned resource is the time of the call and
\* last_used of every other resource is as before.
C23_Original ==
  [][(SelectStep /\ ret' \in DOMAIN proxy_stats)
        => /\ proxy_stats'[ret'].last_used = now
           /\ \A p \in DOMAIN proxy_stats \ {ret'} :
                 proxy_stats'[p].last_used = Stat(p).last_used]_vars

-----------------------------------------------------------------------------
(* The frame of recovery *)

\* consecutive_failures and banned of p are as before the step
C24_HealthKept(p) ==
  /\ proxy_stats'[p].consecutive_failures = Stat(p).consecutive_failures
  /\ proxy_stats'[p].banned = Stat(p).banned

\* C24: in every call of get_next_proxy, consecutive_failures and banned of a
\* resource either stay as they were or are reset to 0 and false, the latter only when
\* no resource of the pool was healthy and the resource had consecutive_failures < 10;
\* total_requests, successful_requests, failed_requests and avg_response_time of
\* every resource stay as they were, and so does last_used except for the write of
\* the selection time on the returned resource; a call made while some resource is
\* healthy leaves consecutive_failures and banned of every resource as they were.
C24_RecoveryFrame ==
  [][SelectStep =>
       /\ DOMAIN proxy_stats' = DOMAIN proxy_stats
       /\ \A p \in DOMAIN proxy_stats :
            /\ \/ C24_HealthKept(p)
               \/ /\ \A q \in Members : ~Healthy(q)
                  /\ Stat(p).consecutive_failures < HardFailures
                  /\ proxy_stats'[p].consecutive_failures = 0
                  /\ ~proxy_stats'[p].banned
            /\ proxy_stats'[p].total_requests = Stat(p).total_requests
            /\ proxy_stats'[p].successful_requests = Stat(p).successful_requests
            /\ proxy_stats'[p].failed_requests = Stat(p).failed_requests
            /\ proxy_stats'[p].avg_response_time = Stat(p).avg_response_time
            /\ p /= ret' => proxy_stats'[p].last_used = Stat(p).last_used
       /\ (\E q \in Members : Healthy(q)) => \A p \in DOMAIN proxy_stats : C24_HealthKept(p)]_vars

\* recovery reset the returned resource (3 failures, no streak left, counters kept)
\* and left the other one, with 10 failures in a row, banned
C24_Witness ==
  /\ lastOp = "get_next_proxy"
  /\ Len(proxies) = 2
  /\ ret \in Members
  /\ Stat(ret).total_requests = 3 /\ Stat(ret).failed_requests = 3
  /\ Stat(ret).consecutive_failures = 0 /\ ~Stat(ret).banned
  /\ Stat(ret).last_used = now
  /\ \E q \in Members \ {ret} :
        /\ Stat(q).consecutive_failures = HardFailures /\ Stat(q).banned
        /\ Stat(q).total_requests = HardFailures

-----------------------------------------------------------------------------
(* Properties of avg_response_time *)

\* C25 as stated: the first record_request of a resource, success or failure, sets
\* avg_response_time to the response_time of the call, and every later one sets it to
\* 0.8 * the previous average + 0.2 * the response_time of the call.
C25_Original ==
  [][(lastOp' = "record_request" /\ ret' = "None")
        => \A p \in DOMAIN proxy_stats :
              proxy_stats'[p].total_requests = Stat(p).total_requests + 1
                => \E response_time \in ResponseTimes :
                      proxy_stats'[p].avg_response_time =
                         IF Stat(p).total_requests = 0
                         THEN [n |-> response_time, k |-> 0]
                         ELSE RollingAverage(Stat(p).avg_response_time, response_time)]_vars

-----------------------------------------------------------------------------
(* Properties of the driver loop *)

\* C26 as stated: between two consecutive calls of generate_single_view the driver
\* obtains a delay and waits: a call of generate_single_view never follows the
\* previous call directly.
C26_Original ==
  [][lastOp = "generate_single_view" => lastOp' /= "generate_single_view"]_vars

\* record_request calls made for p
C27_Calls(made, p) == made[p].successes + made[p].failures

\* C27 as stated: every call of generate_single_view, on each of its paths, makes one
\* record_request call, for the selected resource, and one record_attempt call.
C27_Original ==
  [][(lastOp' = "generate_single_view" /\ proxies /= << >>)
        => /\ C27_Calls(calls', current_proxy') = C27_Calls(calls, current_proxy') + 1
           /\ \A p \in DOMAIN calls \ {current_proxy'} : calls'[p] = calls[p]
           /\ Len(successful_timings') + Len(failed_timings')
                 = Len(successful_timings) + Len(failed_timings) + 1]_vars

-----------------------------------------------------------------------------
(* Properties of should_rotate_proxy *)

\* C28 as stated: when the 20 most recently recorded attempts are all successes,
\* should_rotate_proxy returns false, whatever was recorded before them.  Under
\* SpecRecency every failure is recorded before the first success, so a success
\* history of 20 samples or more holds the 20 most recent attempts.
C28_Original ==
  (lastOp = "should_rotate_proxy" /\ Len(successful_timings) >= 2 * RotateWindow)
     => ret = FALSE

\* the window of should_rotate_proxy (line 258)
C29_Recent ==
  LastN(successful_timings, RotateWindow) \o LastN(failed_timings, RotateWindow)

\* C29 as stated: the samples of the window that should_rotate_proxy counts as
\* successes are the samples that were recorded as successes, as many as the window
\* took from the success history; a sample recorded as a failure is not counted, also
\* when its fields equal those of a recorded success.
C29_Original ==
  (lastOp = "should_rotate_proxy" /\ Len(successful_timings) >= RotateMin)
     => CountedSuccesses(C29_Recent, successful_timings)
           = Len(LastN(successful_timings, RotateWindow))

-----------------------------------------------------------------------------
(* Consistency of the summary *)

\* C30 as stated: in every reachable state of a non-empty pool, also after
\* validate_proxies has replaced the list, the summary has healthy_proxies +
\* banned_proxies <= total_proxies and an avg_success_rate within [0, 1].
C30_Original ==
  (lastOp = "get_stats_summary" /\ proxies /= << >>) =>
     /\ ret.healthy_proxies + ret.banned_proxies <= ret.total_proxies
     /\ 0 <= ret.avg_success_rate.n
     /\ ret.avg_success_rate.n <= ret.avg_success_rate.d

====
